---- MODULE Spec2Model ----
(***************************************************************************)
(* Grid-wise significance testing of src/func_stats.py:                    *)
(*   ttest_2samp(da1, da2, paired, dim, global_alpha)                      *)
(*   mannwhitney(da1, da2, paired, dim, global_alpha)                      *)
(* Both run  xr.apply_ufunc(<cell test>)  ->  ravel  ->  isfinite mask  -> *)
(* multipletests(fdr_bh)  ->  masked write-back  ->  reshape  ->  return.  *)
(*                                                                         *)
(* Floats are exact rationals here: a p-value is v / PDen with v in        *)
(* 0..PDen, the float 1.0 is PDen, the float 0.0 is 0, and not-a-number is *)
(* NaN.  global_alpha is the pair <<numerator, denominator>>.              *)
(***************************************************************************)
EXTENDS Integers, Sequences, FiniteSets, TLC

VARIABLES
    op,        \* the function called: "ttest_2samp" or "mannwhitney"
    paired,    \* argument paired
    alpha,     \* argument global_alpha, <<num, den>>
    da1, da2,  \* the caller's input grids
    pfun,      \* the p-value the selected SciPy test yields at each output cell
    pc,        \* position inside the call
    result,    \* local result: <<>> before apply_ufunc returned, else <<grid>>
    shape,     \* local shape
    values,    \* local values (flat)
    notnull,   \* local notnull (flat mask)
    p_adjust,  \* local p_adjust (reject decisions of the finite family)
    testUsed,  \* the SciPy test that produced the p-values of this call, or "none"
    raised,    \* the exception that ended the call, "none" otherwise
    returned,  \* <<>> or <<the grid handed back to the caller>>
    calls,     \* number of calls started on these inputs
    prev       \* outcome of the previous call on these inputs: <<raised, returned>>

vars == <<op, paired, alpha, da1, da2, pfun, pc, result, shape, values,
          notnull, p_adjust, testUsed, raised, returned, calls, prev>>

(***************************************************************************)
(* Bounds of the model.                                                    *)
(***************************************************************************)
PDen     == 4   \* p-values are multiples of 1/PDen
ADen     == 2   \* global_alpha is a multiple of 1/ADen in the correction runs
MaxTime  == 3   \* longest sample dimension of an input grid
MaxCalls == 2   \* calls made on the same inputs

(***************************************************************************)
(* Program constants.                                                      *)
(***************************************************************************)
DefaultAlphaNum == 1    \* global_alpha=0.05 = 1/20
DefaultAlphaDen == 20
NaN == -1               \* the float not-a-number (np.isfinite is false on it)

SampleDim == "time"     \* dim="time"
Ops == {"ttest_2samp", "mannwhitney"}

PVals == 0..PDen
One  == PDen            \* the float 1.0 on the p-value scale
Zero == 0               \* the float 0.0

(***************************************************************************)
(* Sequence helpers.                                                       *)
(***************************************************************************)
Front(s) == SubSeq(s, 1, Len(s) - 1)
Last(s)  == s[Len(s)]
Range(s) == {s[i] : i \in DOMAIN s}
Pos(d, s) == CHOOSE i \in DOMAIN s : s[i] = d

RECURSIVE Product(_)
Product(s) == IF s = <<>> THEN 1 ELSE Head(s) * Product(Tail(s))

RECURSIVE SeqMax(_)
SeqMax(s) == IF s = <<>> THEN 0
             ELSE IF Head(s) > SeqMax(Tail(s)) THEN Head(s) ELSE SeqMax(Tail(s))

(***************************************************************************)
(* numpy: multi-indices of an array of a given shape, C (row-major) order. *)
(***************************************************************************)
Indices(shp) ==
    {idx \in [1..Len(shp) -> 1..SeqMax(shp)] : \A d \in 1..Len(shp) : idx[d] <= shp[d]}

\* 0-based offset of a multi-index in row-major order
RECURSIVE Offset(_, _)
Offset(idx, shp) ==
    IF idx = <<>> THEN 0
    ELSE Offset(Front(idx), Front(shp)) * Last(shp) + (Last(idx) - 1)

\* ndarray.ravel(): the cells in row-major order
Ravel(vals, shp) ==
    [k \in 1..Product(shp) |->
        vals[CHOOSE idx \in Indices(shp) : Offset(idx, shp) = k - 1]]

\* faulty variant of Reshape: the flat values are handed back without their shape
ReshapeFlat(flat, shp) == [idx \in Indices(<<Len(flat)>>) |-> flat[idx[1]]]

\* ndarray.reshape(shape)
Reshape(flat, shp) == [idx \in Indices(shp) |-> flat[Offset(idx, shp) + 1]]

\* faulty variant of IsFinite: no cell is masked out
IsFiniteAlways(v) == TRUE

\* np.isfinite
IsFinite(v) == v # NaN

\* number of TRUE entries of mask at positions 1..k
RECURSIVE CountTrue(_, _)
CountTrue(mask, k) ==
    IF k = 0 THEN 0 ELSE CountTrue(mask, k - 1) + (IF mask[k] THEN 1 ELSE 0)

\* values[notnull]: boolean-mask selection, order kept
MaskSelect(flat, mask) ==
    [j \in 1..CountTrue(mask, Len(mask)) |->
        flat[CHOOSE k \in 1..Len(mask) : mask[k] /\ CountTrue(mask, k) = j]]

\* the float a boolean is cast to when stored in a float array
BoolToFloat(b) == IF b THEN One ELSE Zero

\* faulty variant of MaskAssign: the decisions are written to the first positions,
\* whatever the mask
MaskAssignPacked(flat, mask, new) ==
    [k \in 1..Len(flat) |->
        IF k <= Len(new) THEN BoolToFloat(new[k]) ELSE flat[k]]

\* values[notnull] = p_adjust: the j-th TRUE position receives p_adjust[j]
MaskAssign(flat, mask, new) ==
    [k \in 1..Len(flat) |->
        IF mask[k] THEN BoolToFloat(new[CountTrue(mask, k)]) ELSE flat[k]]

(***************************************************************************)
(* statsmodels.stats.multitest.multipletests(pvals, alpha, "fdr_bh")[0].   *)
(***************************************************************************)
\* np.argsort(pvals): every index order that sorts ascending (the order of
\* equal p-values is the sort's choice)
RECURSIVE SortsOf(_, _)
SortsOf(pvals, left) ==
    IF left = {} THEN {<<>>}
    ELSE LET least == {j \in left : \A k \in left : pvals[j] <= pvals[k]}
         IN  UNION { {<<j>> \o t : t \in SortsOf(pvals, left \ {j})} : j \in least }

ArgSorts(pvals) == SortsOf(pvals, DOMAIN pvals)

\* faulty variant of BelowLine: the rank is not divided by the number of tests
BelowLineNoM(p, i, m, a) == p * a[2] <= i * a[1] * PDen

\* pvals_sorted[i] <= ecdffactor[i] * alpha, with ecdffactor[i] = i / nobs
BelowLine(p, i, m, a) == p * m * a[2] <= i * a[1] * PDen

\* faulty variant of FdrCorrection: no step-up below the largest rank under the line
FdrNoStepUp(sorted, a) ==
    [i \in 1..Len(sorted) |-> BelowLine(sorted[i], i, Len(sorted), a)]

\* fdrcorrection(pvals_sorted, alpha, method="indep", is_sorted=True)[0]
FdrCorrection(sorted, a) ==
    LET m      == Len(sorted)
        reject == [i \in 1..m |-> BelowLine(sorted[i], i, m, a)]
        hits   == {i \in 1..m : reject[i]}
    IN  IF hits = {} THEN reject
        ELSE LET rejectmax == CHOOSE i \in hits : \A h \in hits : h <= i
             IN  [i \in 1..m |-> IF i < rejectmax THEN TRUE ELSE reject[i]]

\* sort, correct, and put the decisions back in the caller's order
Multipletests(pvals, a, sortind) ==
    LET m      == Len(pvals)
        sorted == [i \in 1..m |-> pvals[sortind[i]]]
        reject == FdrCorrection(sorted, a)
    IN  [j \in 1..m |-> reject[CHOOSE i \in 1..m : sortind[i] = j]]

(***************************************************************************)
(* Grids (xr.DataArray): dims, one coordinate list per dim, and the data.  *)
(* The data of an input grid is kept per index cell as the number of       *)
(* non-missing samples of that cell's sample vector.                       *)
(***************************************************************************)
HasDim(g, d)  == d \in Range(g.dims)
CoordOf(g, d) == g.coords[Pos(d, g.dims)]
IndexDims(g)  == SelectSeq(g.dims, LAMBDA d : d # SampleDim)
TimeLen(g)    == Len(CoordOf(g, SampleDim))
GridShape(g)  == [i \in 1..Len(g.dims) |-> Len(g.coords[i])]

\* apply_ufunc(input_core_dims=[dim, dim]): every input must have the core dim
CoreDimsPresent(a, b) == HasDim(a, SampleDim) /\ HasDim(b, SampleDim)

\* faulty variant of AlignExact: only the extents are compared (join="override")
AlignSizes(a, b) ==
    \A d \in Range(a.dims) \cap Range(b.dims) :
        d # SampleDim => Len(CoordOf(a, d)) = Len(CoordOf(b, d))

\* apply_ufunc(join="exact", exclude_dims=set(dim)): the dims both inputs have,
\* the excluded one apart, must carry equal coordinates
AlignExact(a, b) ==
    \A d \in Range(a.dims) \cap Range(b.dims) :
        d # SampleDim => CoordOf(a, d) = CoordOf(b, d)

\* broadcast dims of the output: ordered union of the inputs' non-core dims
BroadcastDims(a, b) ==
    IndexDims(a) \o SelectSeq(IndexDims(b), LAMBDA d : ~HasDim(a, d))

OutCoords(a, b) ==
    LET bd == BroadcastDims(a, b)
    IN  [i \in 1..Len(bd) |->
            IF HasDim(a, bd[i]) THEN CoordOf(a, bd[i]) ELSE CoordOf(b, bd[i])]

OutShape(a, b) ==
    LET oc == OutCoords(a, b) IN [i \in 1..Len(oc) |-> Len(oc[i])]

\* the cell of input g that output cell idx is computed from
CellOf(g, idx, outdims) ==
    LET id == IndexDims(g) IN [i \in 1..Len(id) |-> idx[Pos(id[i], outdims)]]

\* the exception apply_ufunc raises on these inputs, "none" if it raises none
ApplyUfuncError(a, b) ==
    IF ~AlignExact(a, b) \/ ~CoreDimsPresent(a, b) THEN "ValueError" ELSE "none"

(***************************************************************************)
(* The cell tests _ttest and _mannwhitneyu.                                *)
(***************************************************************************)
SelectedTest(o, pr) ==
    IF o = "ttest_2samp"
    THEN (IF pr THEN "ttest_rel" ELSE "ttest_ind")
    ELSE (IF pr THEN "wilcoxon" ELSE "mannwhitneyu")

\* the exception the cell test raises when called on the whole arrays:
\*   line 78 reads the name scipy, which lines 1-5 never bind;
\*   stats.ttest_rel refuses samples of unequal length along the axis
CellTestError(o, pr, a, b) ==
    IF o = "mannwhitney" /\ pr THEN "NameError"
    ELSE IF pr /\ TimeLen(a) # TimeLen(b) THEN "ValueError"
    ELSE "none"

\* p-values a SciPy test can yield over the output cells (nan_policy="omit"):
\* NaN where a cell has no valid sample in one of the inputs, NaN or a
\* p-value elsewhere
CoarseP == {0, PDen}
TestResults(a, b) ==
    LET od == BroadcastDims(a, b)
    IN  {f \in [Indices(OutShape(a, b)) -> CoarseP \cup {NaN}] :
            \A idx \in Indices(OutShape(a, b)) :
                (a.values[CellOf(a, idx, od)] = 0 \/ b.values[CellOf(b, idx, od)] = 0)
                    => f[idx] = NaN}

(***************************************************************************)
(* Inputs.                                                                 *)
(***************************************************************************)
Labels(n) == [i \in 1..n |-> i]
XA == <<10, 20>>
XB == <<10, 30>>
XC == <<10>>
YA == <<1>>

Layouts(n) ==
    { [dims |-> <<"x", "time">>,      coords |-> <<XA, Labels(n)>>],
      [dims |-> <<"x", "time">>,      coords |-> <<XB, Labels(n)>>],
      [dims |-> <<"x", "time">>,      coords |-> <<XC, Labels(n)>>],
      [dims |-> <<"time", "x">>,      coords |-> <<Labels(n), XA>>],
      [dims |-> <<"y", "time">>,      coords |-> <<YA, Labels(n)>>],
      [dims |-> <<"x", "y", "time">>, coords |-> <<XA, YA, Labels(n)>>],
      [dims |-> <<"x">>,              coords |-> <<XA>>] }

\* shape over the non-sample dims of a layout
IndexShape(l) ==
    LET id == IndexDims(l) IN [i \in 1..Len(id) |-> Len(CoordOf(l, id[i]))]

\* a grid on layout l whose cells hold n valid samples each; with hole, the
\* first cell holds only missing samples.  Sample dimensions have at least
\* two entries, the least a two-sample test can work on
MakeGrid(l, n, hole) ==
    [dims   |-> l.dims,
     coords |-> l.coords,
     values |-> [idx \in Indices(IndexShape(l)) |->
                    IF hole /\ Offset(idx, IndexShape(l)) = 0 THEN 0 ELSE n]]

InputGrids ==
    UNION { {MakeGrid(l, n, hole) : l \in Layouts(n), hole \in BOOLEAN} : n \in 2..MaxTime }

NoPValues(a, b) == [idx \in Indices(OutShape(a, b)) |-> NaN]

Locals0 ==
    /\ result = <<>> /\ shape = <<>> /\ values = <<>> /\ notnull = <<>>
    /\ p_adjust = <<>> /\ testUsed = "none" /\ raised = "none" /\ returned = <<>>

Init ==
    /\ op \in Ops
    /\ paired \in BOOLEAN
    /\ alpha = <<DefaultAlphaNum, DefaultAlphaDen>>
    /\ da1 \in InputGrids
    /\ da2 \in InputGrids
    /\ pfun \in (IF ApplyUfuncError(da1, da2) = "none"
                 THEN TestResults(da1, da2)
                 ELSE {NoPValues(da1, da2)})
    /\ pc = "apply_ufunc"
    /\ Locals0
    /\ calls = 1
    /\ prev = <<>>

(***************************************************************************)
(* The steps of one call.                                                  *)
(***************************************************************************)
Raise(e) ==
    /\ raised' = e
    /\ pc' = "raised"

\* xr.apply_ufunc up to the call of the cell test: alignment and core dims
ApplyUfunc ==
    /\ pc = "apply_ufunc"
    /\ IF ApplyUfuncError(da1, da2) # "none"
       THEN Raise(ApplyUfuncError(da1, da2))
       ELSE pc' = "celltest" /\ UNCHANGED raised
    /\ UNCHANGED <<op, paired, alpha, da1, da2, pfun, result, shape, values,
                   notnull, p_adjust, testUsed, returned, calls, prev>>

\* _ttest / _mannwhitneyu on the broadcast arrays, and the DataArray that
\* apply_ufunc(...).compute() builds from the p-values
CellTest ==
    /\ pc = "celltest"
    /\ IF CellTestError(op, paired, da1, da2) # "none"
       THEN /\ Raise(CellTestError(op, paired, da1, da2))
            /\ UNCHANGED <<result, testUsed>>
       ELSE /\ testUsed' = SelectedTest(op, paired)
            /\ result' = << [dims   |-> BroadcastDims(da1, da2),
                             coords |-> OutCoords(da1, da2),
                             values |-> pfun] >>
            /\ pc' = "ravel"
            /\ UNCHANGED raised
    /\ UNCHANGED <<op, paired, alpha, da1, da2, pfun, shape, values,
                   notnull, p_adjust, returned, calls, prev>>

\* shape = result.shape; values = result.values.ravel(); notnull = np.isfinite(values)
RavelStep ==
    /\ pc = "ravel"
    /\ shape' = GridShape(result[1])
    /\ values' = Ravel(result[1].values, shape')
    /\ notnull' = [k \in 1..Len(values') |-> IsFinite(values'[k])]
    /\ pc' = "multipletests"
    /\ UNCHANGED <<op, paired, alpha, da1, da2, pfun, result, p_adjust,
                   testUsed, raised, returned, calls, prev>>

\* p_adjust = multipletests(values[notnull], alpha=global_alpha, method="fdr_bh")[0]
\* multipletests computes 1./ntests with ntests = len(pvals) before it
\* dispatches on the method: an empty family raises ZeroDivisionError
Correct ==
    /\ pc = "multipletests"
    /\ LET family == MaskSelect(values, notnull)
       IN  IF Len(family) = 0
           THEN Raise("ZeroDivisionError") /\ UNCHANGED p_adjust
           ELSE /\ \E sortind \in ArgSorts(family) :
                       p_adjust' = Multipletests(family, alpha, sortind)
                /\ pc' = "writeback"
                /\ UNCHANGED raised
    /\ UNCHANGED <<op, paired, alpha, da1, da2, pfun, result, shape, values,
                   notnull, testUsed, returned, calls, prev>>

\* faulty variant of WriteBack: the write-back lands in the caller's first grid
WriteBackIntoInput ==
    /\ pc = "writeback"
    /\ values' = MaskAssign(values, notnull, p_adjust)
    /\ da1' = [da1 EXCEPT !.values = Reshape(values', shape)]
    /\ result' = << [result[1] EXCEPT !.values = Reshape(values', shape)] >>
    /\ returned' = result'
    /\ pc' = "done"
    /\ UNCHANGED <<op, paired, alpha, da2, pfun, shape, notnull, p_adjust,
                   testUsed, raised, calls, prev>>

\* values[notnull] = p_adjust; result.values = values.reshape(shape); return result
WriteBack ==
    /\ pc = "writeback"
    /\ values' = MaskAssign(values, notnull, p_adjust)
    /\ result' = << [result[1] EXCEPT !.values = Reshape(values', shape)] >>
    /\ returned' = result'
    /\ pc' = "done"
    /\ UNCHANGED <<op, paired, alpha, da1, da2, pfun, shape, notnull, p_adjust,
                   testUsed, raised, calls, prev>>

\* the caller calls again with the same arguments
CallAgain ==
    /\ pc \in {"done", "raised"}
    /\ calls < MaxCalls
    /\ prev' = <<raised, returned>>
    /\ calls' = calls + 1
    /\ pc' = "apply_ufunc"
    /\ result' = <<>> /\ shape' = <<>> /\ values' = <<>> /\ notnull' = <<>>
    /\ p_adjust' = <<>> /\ testUsed' = "none" /\ raised' = "none" /\ returned' = <<>>
    /\ UNCHANGED <<op, paired, alpha, da1, da2, pfun>>

Next ==
    \/ ApplyUfunc
    \/ CellTest
    \/ RavelStep
    \/ Correct
    \/ WriteBack
    \/ CallAgain

Spec == Init /\ [][Next]_vars

(***************************************************************************)
(* The correction alone (lines 45-57 and 94-106), started from every       *)
(* p-value grid apply_ufunc can have returned on a two-dimensional *)
(* index grid, under every global_alpha k / ADen.                          *)
(***************************************************************************)
Shapes == {<<1, 1>>, <<1, 2>>, <<2, 1>>, <<1, 3>>, <<2, 2>>, <<4, 1>>}

DimNames(s) == <<"x", "y">>

\* an input grid of index shape s with two valid samples in every cell
FullGrid(s) ==
    [dims   |-> DimNames(s) \o <<SampleDim>>,
     coords |-> [i \in 1..(Len(s) + 1) |-> IF i <= Len(s) THEN Labels(s[i]) ELSE Labels(2)],
     values |-> [idx \in Indices(s) |-> 2]]

InitBH ==
    /\ op \in Ops
    /\ paired = FALSE
    /\ alpha \in {<<k, ADen>> : k \in 0..ADen}
    /\ \E s \in Shapes :
          /\ da1 = FullGrid(s)
          /\ da2 = FullGrid(s)
          /\ pfun \in [Indices(s) -> PVals \cup {NaN}]
    /\ result = << [dims   |-> BroadcastDims(da1, da2),
                    coords |-> OutCoords(da1, da2),
                    values |-> pfun] >>
    /\ testUsed = SelectedTest(op, paired)
    /\ pc = "ravel"
    /\ shape = <<>> /\ values = <<>> /\ notnull = <<>> /\ p_adjust = <<>>
    /\ raised = "none" /\ returned = <<>>
    /\ calls = 1
    /\ prev = <<>>

NextBH ==
    \/ RavelStep
    \/ Correct
    \/ WriteBack

SpecBH == InitBH /\ [][NextBH]_vars

(***************************************************************************)
(* Vocabulary of the properties, stated on the raw p-values pfun and the   *)
(* caller's grids only.                                                    *)
(***************************************************************************)
Finished  == pc \in {"done", "raised"}
Cells     == DOMAIN pfun
FinCells  == {c \in Cells : pfun[c] # NaN}
FamilyM   == Cardinality(FinCells)
Out       == returned[1]

\* the i-th smallest finite raw p-value
Ranked(i) ==
    CHOOSE v \in PVals :
        /\ Cardinality({c \in FinCells : pfun[c] < v}) < i
        /\ i <= Cardinality({c \in FinCells : pfun[c] <= v})

\* p <= (i / m) * global_alpha
UnderLine(p, i) == p * FamilyM * alpha[2] <= i * alpha[1] * PDen

\* the ranks i with p_(i) <= (i / m) * global_alpha
StepUpRanks == {i \in 1..FamilyM : UnderLine(Ranked(i), i)}
StepUpK     == CHOOSE k \in StepUpRanks : \A i \in StepUpRanks : i <= k

\* the Benjamini-Hochberg decision of cell c over the family of all finite cells
Decision(c) == StepUpRanks # {} /\ pfun[c] <= Ranked(StepUpK)

\* the Benjamini-Hochberg decision of cell c over the finite cells of its own row
RowOf(c) == {d \in FinCells : d[1] = c[1]}
RowRanked(c, i) ==
    CHOOSE v \in PVals :
        /\ Cardinality({d \in RowOf(c) : pfun[d] < v}) < i
        /\ i <= Cardinality({d \in RowOf(c) : pfun[d] <= v})
RowRanks(c) ==
    {i \in 1..Cardinality(RowOf(c)) :
        RowRanked(c, i) * Cardinality(RowOf(c)) * alpha[2] <= i * alpha[1] * PDen}
RowDecision(c) ==
    /\ RowRanks(c) # {}
    /\ pfun[c] <= RowRanked(c, CHOOSE k \in RowRanks(c) : \A i \in RowRanks(c) : i <= k)

\* C1: every defined cell of the returned grid holds 1.0 exactly when its raw
\* p-value is at or below p_(k), k the largest rank with p_(k) <= (k/m) * alpha
\* over the one family of all finite cells of the grid, and 0.0 otherwise
C1_OneFamilyStepUp ==
    pc = "done" =>
        \A c \in FinCells : Out.values[c] = (IF Decision(c) THEN One ELSE Zero)

\* C1 witness: a returned grid of two rows where a cell is rejected although
\* its own rank is above the line, a cell is not rejected, and the decision of
\* some cell differs from the one a per-row family would give
C1_Witness ==
    /\ pc = "done"
    /\ Len(shape) = 2 /\ shape[1] >= 2
    /\ \E c \in FinCells : Out.values[c] = One /\ ~UnderLine(Ranked(1), 1)
    /\ \E c \in FinCells : Out.values[c] = Zero
    /\ \E c \in FinCells : Decision(c) # RowDecision(c)

\* C2: an undefined raw p-value stays undefined in the returned grid, is never
\* marked significant, and the family handed to the correction has exactly
\* as many members as there are finite cells
C2_UndefinedExcluded ==
    /\ pc \in {"writeback", "done"} => Len(p_adjust) = FamilyM
    /\ pc = "done" => \A c \in Cells \ FinCells : Out.values[c] = NaN /\ Out.values[c] # One

\* C2 witness: a returned grid with an undefined cell and a significant cell
C2_Witness ==
    /\ pc = "done"
    /\ Cells \ FinCells # {}
    /\ Len(p_adjust) < Cardinality(Cells)
    /\ \E c \in FinCells : Out.values[c] = One

\* C8: the cells marked significant are no more than the cells with a finite
\* raw p-value <= global_alpha, and no cell with raw p-value > global_alpha is
\* marked significant
RawAtMostAlpha == {c \in FinCells : pfun[c] * alpha[2] <= alpha[1] * PDen}
Significant    == {c \in FinCells : Out.values[c] = One}
C8_Monotone ==
    pc = "done" =>
        /\ Cardinality(Significant) <= Cardinality(RawAtMostAlpha)
        /\ Significant \subseteq RawAtMostAlpha

\* C8 witness: some but not all of the cells at or below global_alpha are
\* marked significant
C8_Witness ==
    /\ pc = "done"
    /\ Significant # {}
    /\ Cardinality(Significant) < Cardinality(RawAtMostAlpha)

\* multi-index c comes before or at d in row-major order
LexLE(c, d) ==
    \/ c = d
    \/ \E i \in 1..Len(c) : c[i] < d[i] /\ \A j \in 1..(i - 1) : c[j] = d[j]

\* the position of finite cell c among the finite cells, row-major
FiniteRank(c) == Cardinality({d \in FinCells : LexLE(d, c)})

\* C10: the outcome of the j-th finite p-value in row-major order is the
\* decision of the cell that p-value was read from, and it is written back to
\* that same cell; undefined cells in between shift nothing
C10_OutcomeAtOwnCell ==
    /\ pc \in {"writeback", "done"} =>
          \A c \in FinCells : p_adjust[FiniteRank(c)] = Decision(c)
    /\ pc = "done" =>
          /\ DOMAIN Out.values = Cells
          /\ \A c \in FinCells : Out.values[c] = BoolToFloat(p_adjust[FiniteRank(c)])

\* C10 witness: a returned grid where an undefined cell lies before a defined
\* one and the decisions of two defined cells differ
C10_Witness ==
    /\ pc = "done"
    /\ \E c \in Cells \ FinCells : \E d \in FinCells : LexLE(c, d)
    /\ \E c, d \in FinCells : Out.values[c] # Out.values[d]

(***************************************************************************)
(* Vocabulary of the properties about the caller's grids.                  *)
(***************************************************************************)
DimSet(g)       == {g.dims[i] : i \in DOMAIN g.dims}
LabelsOf(g, d)  == g.coords[CHOOSE i \in DOMAIN g.dims : g.dims[i] = d]
SharedIndex(a, b) == (DimSet(a) \cap DimSet(b)) \ {SampleDim}
CoordsDiffer(a, b) == \E d \in SharedIndex(a, b) : LabelsOf(a, d) # LabelsOf(b, d)
OnlyInOne(a, b) ==
    (((DimSet(a) \ DimSet(b)) \cup (DimSet(b) \ DimSet(a))) \ {SampleDim}) # {}
SampleDimMissing(a, b) == SampleDim \notin DimSet(a) \/ SampleDim \notin DimSet(b)
ValidInputs(a, b) == ~CoordsDiffer(a, b) /\ ~OnlyInOne(a, b) /\ ~SampleDimMissing(a, b)
SampleLen(g) == Len(LabelsOf(g, SampleDim))
PairedRankTest == op = "mannwhitney" /\ paired

\* C3: on valid inputs with a computable cell, each of the four (operation,
\* paired) combinations runs its selected SciPy test and returns a grid
C3_SelectedTestRuns ==
    (/\ Finished
     /\ ValidInputs(da1, da2)
     /\ (paired => SampleLen(da1) = SampleLen(da2))
     /\ FinCells # {})
        => /\ raised = "none"
           /\ testUsed = SelectedTest(op, paired)
           /\ returned # <<>>

\* C4: on valid inputs the call completes whatever subset of cells has an
\* undefined raw p-value, the whole grid included, and returns a grid with
\* those cells undefined (the paired rank test is left aside: it ends before
\* any p-value exists)
C4_InsufficiencyNeverFails ==
    (/\ Finished
     /\ ValidInputs(da1, da2)
     /\ (paired => SampleLen(da1) = SampleLen(da2))
     /\ ~PairedRankTest)
        => /\ pc = "done"
           /\ returned # <<>>
           /\ \A c \in Cells \ FinCells : Out.values[c] = NaN

\* C5 as claimed: whenever the index dimensions of the two grids disagree or
\* the sample dimension is absent from one, no grid is returned
C5_MismatchReturnsNoGrid ==
    (CoordsDiffer(da1, da2) \/ OnlyInOne(da1, da2) \/ SampleDimMissing(da1, da2))
        => returned = <<>>

\* C5 amended: a call fails with ValueError before any cell test, and returns
\* no grid, whenever an index dimension both grids have differs in extent or
\* coordinates or the sample dimension is absent from a grid; an index
\* dimension only one grid has is broadcast, and a grid returned then spans
\* the index dimensions of both
C5_SharedMismatchFails ==
    /\ (CoordsDiffer(da1, da2) \/ SampleDimMissing(da1, da2))
          => /\ result = <<>> /\ returned = <<>> /\ testUsed = "none"
             /\ pc \in {"apply_ufunc", "raised"}
             /\ pc = "raised" => raised = "ValueError"
    /\ (pc = "done" /\ OnlyInOne(da1, da2))
          => DimSet(Out) = (DimSet(da1) \cup DimSet(da2)) \ {SampleDim}

\* C5 witness: a call that ended in ValueError on grids whose shared index
\* dimension carries different coordinates
C5_Witness ==
    /\ pc = "raised" /\ raised = "ValueError"
    /\ CoordsDiffer(da1, da2)
    /\ ~SampleDimMissing(da1, da2)

\* C6: with sample dimensions of different length, a paired call ends in the
\* precondition error (ValueError) before any cell test has run and without
\* output, and an unpaired call with a computable cell returns a grid
C6_PairedLengthMismatch ==
    (ValidInputs(da1, da2) /\ SampleLen(da1) # SampleLen(da2))
        => /\ paired => /\ testUsed = "none" /\ result = <<>> /\ returned = <<>>
                        /\ pc \in {"apply_ufunc", "celltest", "raised"}
                        /\ pc = "raised" => raised = "ValueError"
           /\ (~paired /\ Finished /\ FinCells # {}) => pc = "done" /\ returned # <<>>

\* C7: on valid inputs the returned grid has the index dimensions of the
\* inputs, in order, with their coordinates, without the sample dimension, and
\* its cells are those of the raw p-value grid
C7_ShapePreserved ==
    (pc = "done" /\ ValidInputs(da1, da2)) =>
        /\ Out.dims = SelectSeq(da1.dims, LAMBDA d : d # SampleDim)
        /\ SampleDim \notin DimSet(Out)
        /\ Len(Out.coords) = Len(Out.dims)
        /\ \A i \in DOMAIN Out.dims :
               /\ Out.coords[i] = LabelsOf(da1, Out.dims[i])
               /\ Out.coords[i] = LabelsOf(da2, Out.dims[i])
        /\ DOMAIN Out.values = Cells
        /\ DOMAIN Out.values =
               {idx \in [DOMAIN Out.dims -> 1..2] :
                    \A i \in DOMAIN Out.dims : idx[i] <= Len(Out.coords[i])}

\* C7 witness: a grid returned on valid inputs with two index dimensions
C7_Witness ==
    /\ pc = "done"
    /\ ValidInputs(da1, da2)
    /\ Len(Out.dims) = 2
    /\ Cardinality(DOMAIN Out.values) = 2

\* C9: no step of a call changes an input grid, and a call repeated on the
\* same arguments ends as the call before it did (same error or same grid)
C9_InputsUntouched ==
    [][/\ da1' = da1
       /\ da2' = da2
       /\ (pc' \in {"done", "raised"} /\ calls' >= 2) => <<raised', returned'>> = prev'
      ]_vars

\* C9 witness: a second call has returned a grid with a significant cell,
\* after a first call that returned
C9_Witness ==
    /\ pc = "done"
    /\ calls = 2
    /\ prev[1] = "none"
    /\ \E c \in FinCells : Out.values[c] = One

====
